---- MODULE Spec2Model ----
(***************************************************************************)
(* A model of simplified_auth_app.py: the login gate, the data-entry form, *)
(* the CSV-backed submission log (load_submissions / save_submission), the *)
(* View Submissions page (filter, sort) and format_value.                  *)
(*                                                                         *)
(* Text is a sequence of tokens.  A token is one character where the code  *)
(* looks at characters (digits, ".", "%", ",", "$", " ") and a whole word  *)
(* otherwise ("Recruitment", "admin@girltrek.org").                        *)
(***************************************************************************)
EXTENDS Integers, Sequences, FiniteSets, TLC

(***************************************************************************)
(* Bounds of the model.                                                    *)
(***************************************************************************)
MaxRecords == 2
MaxLen == 4
MaxFaults == 1

(***************************************************************************)
(* Text helpers.                                                           *)
(***************************************************************************)
Digit == {"0", "1", "2", "3", "4", "5", "6", "7", "8", "9"}

DigitVal(c) ==
    CASE c = "0" -> 0 [] c = "1" -> 1 [] c = "2" -> 2 [] c = "3" -> 3
      [] c = "4" -> 4 [] c = "5" -> 5 [] c = "6" -> 6 [] c = "7" -> 7
      [] c = "8" -> 8 [] c = "9" -> 9

DigitChar(d) ==
    CASE d = 0 -> "0" [] d = 1 -> "1" [] d = 2 -> "2" [] d = 3 -> "3"
      [] d = 4 -> "4" [] d = 5 -> "5" [] d = 6 -> "6" [] d = 7 -> "7"
      [] d = 8 -> "8" [] d = 9 -> "9"

Range(s) == {s[i] : i \in 1..Len(s)}

IndexOf(s, c) == CHOOSE i \in 1..Len(s) : s[i] = c /\ \A j \in 1..(i - 1) : s[j] # c

\* The digits of a text of digits, as a number.
RECURSIVE DigitsVal(_)
DigitsVal(s) ==
    IF s = <<>> THEN 0
    ELSE 10 * DigitsVal(SubSeq(s, 1, Len(s) - 1)) + DigitVal(s[Len(s)])

\* str(n) for n >= 0.
RECURSIVE IntStr(_)
IntStr(n) ==
    IF n < 10 THEN <<DigitChar(n)>>
    ELSE IntStr(n \div 10) \o <<DigitChar(n % 10)>>

\* format(n, ","): the decimal digits of n >= 0 in groups of three.
RECURSIVE Grouped(_)
Grouped(n) ==
    IF n < 1000 THEN IntStr(n)
    ELSE LET low == n % 1000
             pad == IF low < 10 THEN <<"0", "0">> ELSE IF low < 100 THEN <<"0">> ELSE <<>>
         IN  Grouped(n \div 1000) \o <<",">> \o pad \o IntStr(low)

\* A text float() and read_csv take as a number: digits with at most one ".".
IsInt(s) == s # <<>> /\ Range(s) \subseteq Digit

IsFloat(s) ==
    /\ Range(s) \subseteq Digit \cup {"."}
    /\ Cardinality({i \in 1..Len(s) : s[i] = "."}) = 1
    /\ Len(s) >= 2

IsNumber(s) == IsInt(s) \/ IsFloat(s)

IntPart(s) == IF "." \in Range(s) THEN SubSeq(s, 1, IndexOf(s, ".") - 1) ELSE s

FracPart(s) == IF "." \in Range(s) THEN SubSeq(s, IndexOf(s, ".") + 1, Len(s)) ELSE <<>>

(***************************************************************************)
(* The metric catalog.                                                     *)
(***************************************************************************)
dashboard_sections ==
    << "Executive Summary", "Recruitment", "Engagement", "Development",
       "Marketing", "Operations", "Member Care", "Advocacy", "Impact" >>

get_metrics_for_section(section) ==
    CASE section = "Executive Summary" ->
           << "Total Membership", "Total New Members", "Total Contributions",
              "New Members by Age Group", "Total Trekkers by Region" >>
      [] section = "Recruitment" ->
           << "Total New Members", "New Members Age 18-30",
              "Recruitment Partnerships", "Recruitment Events" >>
      [] section = "Engagement" ->
           << "Total New Crews", "Members Walking Daily", "Active Volunteers",
              "Documented Crew Leaders", "Active Crew Leaders",
              "Self-Care School Registrants" >>
      [] section = "Development" ->
           << "Total Contributions", "Total Grants", "Corporate Sponsorships",
              "Store Sales", "Other Revenue" >>
      [] section = "Marketing" ->
           << "Total Subscribers", "Active Subscribers", "Facebook Followers",
              "Instagram Followers", "LinkedIn Followers",
              "Social Media Impressions" >>
      [] section = "Operations" ->
           << "Budget Performance", "ASANA Adoption", "Audit Compliance",
              "Cybersecurity Compliance" >>
      [] section = "Member Care" ->
           << "Member Satisfaction Rating", "Resolution/Responsiveness Rate",
              "New Member Stories" >>
      [] section = "Advocacy" ->
           << "Advocacy Briefs Published", "Advocacy Partnerships" >>
      [] section = "Impact" ->
           << "Health Knowledge Change", "Mental Well-being Change",
              "Connection Improvement", "Weight Loss Percentage",
              "Chronic Condition Management" >>
      [] OTHER -> << >>

\* The metric lists the code tests membership in (lines 184, 189, 288-294).
CurrencyMetrics ==
    { "Total Contributions", "Total Grants", "Corporate Sponsorships",
      "Store Sales", "Other Revenue" }

PercentageMetrics == { "Member Satisfaction Rating", "ASANA Adoption" }

FreeTextMetrics == { "New Member Stories" }

(***************************************************************************)
(* format_value.  A value is a text over ValueAlphabet; float(value) takes *)
(* exactly the texts IsNumber accepts over that alphabet.                  *)
(***************************************************************************)
\* f"{cents/100:,.2f}" for an amount given in cents.
Money(cents) ==
    LET c == cents % 100
    IN  Grouped(cents \div 100) \o <<".">> \o
        (IF c < 10 THEN <<"0">> ELSE <<>>) \o IntStr(c)

\* float(s) rounded to two decimals, in cents.  Python rounds the binary
\* double; a decimal tie (a 5 followed by zeros only) is decided there by the
\* double's error and is rounded half-even here (ValueAlphabet has no 5:
\* no tie arises among the values checked).
Cents(s) ==
    LET f    == FracPart(s) \o <<"0", "0", "0">>
        base == 100 * DigitsVal(IntPart(s)) + DigitsVal(SubSeq(f, 1, 2))
        rest == SubSeq(f, 3, Len(f))
        tail == {rest[i] : i \in 2..Len(rest)}
        up   == \/ DigitVal(rest[1]) > 5
                \/ DigitVal(rest[1]) = 5 /\ tail \cap (Digit \ {"0"}) # {}
                \/ DigitVal(rest[1]) = 5 /\ tail \subseteq {"0"} /\ base % 2 = 1
    IN  IF up THEN base + 1 ELSE base

endswith(s, c) == s # <<>> /\ s[Len(s)] = c

FormatCurrency(value) ==
    IF IsNumber(value) THEN <<"$">> \o Money(Cents(value)) ELSE value

FormatPercentage(value) ==
    IF ~endswith(value, "%") THEN value \o <<"%">> ELSE value

FormatCount(value) ==
    IF IsNumber(value) THEN Grouped(DigitsVal(IntPart(value))) ELSE value

format_value(value, metric_name) ==
    IF metric_name \in CurrencyMetrics THEN FormatCurrency(value)
    ELSE IF metric_name \in PercentageMetrics THEN FormatPercentage(value)
    ELSE FormatCount(value)

(***************************************************************************)
(* The CSV file and pandas' reading and writing of it.                     *)
(*                                                                         *)
(* The file is its rows of cell texts under the header row.  A DataFrame   *)
(* is a sequence of rows of typed cells: [t |-> dtype, v |-> text], v the  *)
(* text str() and to_csv give the value.                                   *)
(***************************************************************************)
Columns ==
    << "submission_id", "timestamp", "first_name", "last_name", "email",
       "dashboard_section", "metric_name", "metric_value", "notes" >>

NoFile == [exists |-> FALSE, header |-> FALSE, rows |-> << >>]

\* read_csv's default missing-value markers, those a text of the model can be.
NaValues == { << >>, <<"NA">> }

NaN == [t |-> "nan", v |-> << >>]

Str(s) == [t |-> "str", v |-> s]

RECURSIVE StripZeros(_)
StripZeros(s) == IF Len(s) > 1 /\ s[1] = "0" THEN StripZeros(Tail(s)) ELSE s

RECURSIVE StripTrailingZeros(_)
StripTrailingZeros(s) ==
    IF Len(s) > 1 /\ s[Len(s)] = "0"
    THEN StripTrailingZeros(SubSeq(s, 1, Len(s) - 1)) ELSE s

\* str(int(s)) and repr(float(s)) for a number text.
IntRepr(s) == StripZeros(s)

FloatRepr(s) ==
    LET i == IF IntPart(s) = << >> THEN <<"0">> ELSE StripZeros(IntPart(s))
        f == IF FracPart(s) = << >> THEN <<"0">> ELSE StripTrailingZeros(FracPart(s))
    IN  i \o <<".">> \o f

\* The cell of column c in file row r; a row with fewer fields is padded.
RawCell(r, c) == IF c <= Len(r) THEN r[c] ELSE << >>

\* The dtype read_csv infers for column c from all of its cells.
InferDtype(rows, c) ==
    LET present == {i \in 1..Len(rows) : RawCell(rows[i], c) \notin NaValues}
    IN  IF \A i \in present : IsInt(RawCell(rows[i], c))
        THEN (IF Cardinality(present) = Len(rows) THEN "int" ELSE "float")
        ELSE IF \A i \in present : IsNumber(RawCell(rows[i], c)) THEN "float"
        ELSE "str"

ParseCell(text, dtype) ==
    IF text \in NaValues THEN NaN
    ELSE IF dtype = "int" THEN [t |-> "int", v |-> IntRepr(text)]
    ELSE IF dtype = "float" THEN [t |-> "float", v |-> FloatRepr(text)]
    ELSE Str(text)

\* One file row as a DataFrame row, given the dtype of each column.
ParseRow(r, dtypes) ==
    [submission_id     |-> ParseCell(RawCell(r, 1), dtypes[1]),
     timestamp         |-> ParseCell(RawCell(r, 2), dtypes[2]),
     first_name        |-> ParseCell(RawCell(r, 3), dtypes[3]),
     last_name         |-> ParseCell(RawCell(r, 4), dtypes[4]),
     email             |-> ParseCell(RawCell(r, 5), dtypes[5]),
     dashboard_section |-> ParseCell(RawCell(r, 6), dtypes[6]),
     metric_name       |-> ParseCell(RawCell(r, 7), dtypes[7]),
     metric_value      |-> ParseCell(RawCell(r, 8), dtypes[8]),
     notes             |-> ParseCell(RawCell(r, 9), dtypes[9])]

RECURSIVE ParseRows(_, _)
ParseRows(rows, dtypes) ==
    IF rows = << >> THEN << >>
    ELSE <<ParseRow(rows[1], dtypes)>> \o ParseRows(Tail(rows), dtypes)

\* pd.read_csv on an existing file: it raises on a file with no header line.
read_csv(f) ==
    IF ~f.header THEN [ok |-> FALSE, df |-> << >>]
    ELSE LET dtypes == << InferDtype(f.rows, 1), InferDtype(f.rows, 2),
                          InferDtype(f.rows, 3), InferDtype(f.rows, 4),
                          InferDtype(f.rows, 5), InferDtype(f.rows, 6),
                          InferDtype(f.rows, 7), InferDtype(f.rows, 8),
                          InferDtype(f.rows, 9) >>
         IN  [ok |-> TRUE, df |-> ParseRows(f.rows, dtypes)]

\* One DataFrame row as to_csv writes it.
WriteRow(r) ==
    << r.submission_id.v, r.timestamp.v, r.first_name.v, r.last_name.v,
       r.email.v, r.dashboard_section.v, r.metric_name.v, r.metric_value.v,
       r.notes.v >>

RECURSIVE WriteRows(_)
WriteRows(df) ==
    IF df = << >> THEN << >> ELSE <<WriteRow(df[1])>> \o WriteRows(Tail(df))

\* DataFrame.to_csv(index=False): the header and one row per record.
to_csv(df) == [exists |-> TRUE, header |-> TRUE, rows |-> WriteRows(df)]

load_submissions(f) ==
    IF f.exists THEN read_csv(f) ELSE [ok |-> TRUE, df |-> << >>]

\* pd.DataFrame([submission_data]): every value a Python str.
NewFrame(submission_data) ==
    << [submission_id     |-> Str(submission_data.submission_id),
        timestamp         |-> Str(submission_data.timestamp),
        first_name        |-> Str(submission_data.first_name),
        last_name         |-> Str(submission_data.last_name),
        email             |-> Str(submission_data.email),
        dashboard_section |-> Str(submission_data.dashboard_section),
        metric_name       |-> Str(submission_data.metric_name),
        metric_value      |-> Str(submission_data.metric_value),
        notes             |-> Str(submission_data.notes)] >>

\* write_back writing the frame it loaded in place of the updated one.
write_back_stale(submissions_df, submission_data) ==
    to_csv(submissions_df)

\* Lines 106-108: concat and to_csv.
write_back(submissions_df, submission_data) ==
    to_csv(submissions_df \o NewFrame(submission_data))

\* The file save_submission leaves for a log it could load.
save_submission(f, submission_data) ==
    write_back(load_submissions(f).df, submission_data)

\* What a to_csv that fails part-way can leave of the file it was writing:
\* nothing, or the header and some whole rows, then some whole fields of
\* the next row.
Truncations(f) ==
    {[exists |-> TRUE, header |-> FALSE, rows |-> << >>]} \cup
    {[exists |-> TRUE, header |-> TRUE, rows |-> SubSeq(f.rows, 1, k) \o partial] :
        k \in 0..(Len(f.rows) - 1),
        partial \in {<< >>} \cup {<<SubSeq(f.rows[Len(f.rows)], 1, j)>> :
                                     j \in 1..(Len(Columns) - 1)}}

(***************************************************************************)
(* Authentication.                                                         *)
(***************************************************************************)
\* The configuration init_auth loads: the default admin, and one more user
\* an operator has added to config.yaml (a one-word name).
auth_config ==
    [users |->
       [admin |-> [password |-> "admin",
                   name |-> <<"GirlTREK", " ", "Admin">>,
                   email |-> <<"admin@girltrek.org">>],
        cher  |-> [password |-> "walk",
                   name |-> <<"Cher">>,
                   email |-> <<"cher@girltrek.org">>]]]

NoUser == [password |-> "", name |-> << >>, email |-> << >>]

\* check_login without the comparison of passwords.
check_login_any_password(username, password, config) ==
    IF username \in DOMAIN config.users
    THEN [authenticated |-> TRUE, user_info |-> config.users[username]]
    ELSE [authenticated |-> FALSE, user_info |-> NoUser]

check_login(username, password, config) ==
    IF username \in DOMAIN config.users
       /\ password = config.users[username].password
    THEN [authenticated |-> TRUE, user_info |-> config.users[username]]
    ELSE [authenticated |-> FALSE, user_info |-> NoUser]


\* str.split(): the words between runs of blanks.
RECURSIVE split(_)
split(s) ==
    IF s = << >> THEN << >>
    ELSE IF s[1] = " " THEN split(Tail(s))
    ELSE LET n == IF " " \in Range(s) THEN IndexOf(s, " ") - 1 ELSE Len(s)
         IN  <<SubSeq(s, 1, n)>> \o split(SubSeq(s, n + 1, Len(s)))

\* ' '.join(words)
RECURSIVE join(_)
join(words) ==
    IF words = << >> THEN << >>
    ELSE IF Len(words) = 1 THEN words[1]
    ELSE words[1] \o <<" ">> \o join(Tail(words))

first_name(name) == split(name)[1]

last_name(name) == IF Len(split(name)) > 1 THEN join(Tail(split(name))) ELSE << >>

(***************************************************************************)
(* The data-entry form.                                                    *)
(***************************************************************************)
\* The value widget the form shows for a metric (lines 288-298).
WidgetFor(metric_name) ==
    IF metric_name \in PercentageMetrics THEN "Percentage Value"
    ELSE IF metric_name \in CurrencyMetrics THEN "Dollar Value"
    ELSE IF metric_name \in FreeTextMetrics THEN "Story Content"
    ELSE "Numeric Value"

\* What a user sets each widget to; the first is the widget's default.
SliderInputs == <<50, 100>>
DollarInputs == <<0, 123450>>
StoryInputs == << << >>, <<"0", "0", "7">> >>
NumericInputs == <<0, 2500>>
WidgetInputs(widget) ==
    CASE widget = "Percentage Value" -> Range(SliderInputs)
      [] widget = "Dollar Value" -> Range(DollarInputs)
      [] widget = "Story Content" -> Range(StoryInputs)
      [] widget = "Numeric Value" -> Range(NumericInputs)

WidgetDefault(widget) ==
    CASE widget = "Percentage Value" -> SliderInputs[1]
      [] widget = "Dollar Value" -> DollarInputs[1]
      [] widget = "Story Content" -> StoryInputs[1]
      [] widget = "Numeric Value" -> NumericInputs[1]

\* metric_value as the form formats it; a dollar amount is held in cents.
FormValue(widget, raw) ==
    CASE widget = "Percentage Value" -> IntStr(raw) \o <<"%">>
      [] widget = "Dollar Value" -> <<"$">> \o Money(raw)
      [] widget = "Story Content" -> raw
      [] widget = "Numeric Value" -> Grouped(raw)

\* selectbox keeping the user's choice whatever the options have become.
selectbox_stale(options, shown_options, picked) == picked

\* st.selectbox in a rerun: the widget keeps the user's choice while its
\* options are those it was shown with, and is a new widget at its first
\* option otherwise.
selectbox(options, shown_options, picked) ==
    IF options = shown_options THEN picked ELSE options[1]

\* A value widget in a rerun, likewise: the user's entry if that widget
\* was on the page, its default if it is new.
value_input(widget, shown_widget, entered) ==
    IF widget = shown_widget THEN entered ELSE WidgetDefault(widget)

FormDefault ==
    [section |-> dashboard_sections[1],
     metric  |-> get_metrics_for_section(dashboard_sections[1])[1]]

\* uuid.uuid4() as a string: never a number, never blank.
uuid4(n) == <<"uuid-">> \o IntStr(n)

\* datetime.now().strftime("%Y-%m-%d %H:%M:%S") at clock second n < 60.
strftime(n) ==
    <<"2025-01-01 00:00:">> \o (IF n < 10 THEN <<"0">> ELSE << >>) \o IntStr(n)

\* The script's run on Submit Data, lines 275-318: the record it builds from
\* the form as shown, the user's changes to it, and the session.
submission_data(shown, sec, mpick, entered, notes, user, id, clock) ==
    LET metric_options == get_metrics_for_section(sec)
        metric_name    == selectbox(metric_options,
                                    get_metrics_for_section(shown.section), mpick)
        widget         == WidgetFor(metric_name)
        raw            == value_input(widget, WidgetFor(shown.metric), entered)
    IN  [submission_id     |-> uuid4(id),
         timestamp         |-> strftime(clock),
         first_name        |-> first_name(user.name),
         last_name         |-> last_name(user.name),
         email             |-> user.email,
         dashboard_section |-> <<sec>>,
         metric_name       |-> <<metric_name>>,
         metric_value      |-> FormValue(widget, raw),
         notes             |-> notes]

(***************************************************************************)
(* The View Submissions page.                                              *)
(***************************************************************************)
AllSections == Str(<<"All Sections">>)

AllMetrics == Str(<<"All Metrics">>)

\* ["All ..."] + list(df[column].unique())
FilterOptions(df, column, all) == {all} \cup {df[i][column] : i \in 1..Len(df)}

\* Series == value, element by element: a missing value equals nothing.
PdEq(cell, value) == cell.t # "nan" /\ value.t # "nan" /\ cell = value

SelectRows(df, column, value) ==
    LET Keep(r) == PdEq(r[column], value) IN SelectSeq(df, Keep)

\* apply_filters with the metric filter taken from the loaded frame, not
\* from the frame the section filter left.
apply_filters_unchained(df, filter_section, filter_metrics) ==
    IF filter_metrics # AllMetrics
    THEN SelectRows(df, "metric_name", filter_metrics)
    ELSE IF filter_section # AllSections
    THEN SelectRows(df, "dashboard_section", filter_section)
    ELSE df

\* Lines 364-370.
apply_filters(df, filter_section, filter_metrics) ==
    LET by_section == IF filter_section # AllSections
                      THEN SelectRows(df, "dashboard_section", filter_section)
                      ELSE df
    IN  IF filter_metrics # AllMetrics
        THEN SelectRows(by_section, "metric_name", filter_metrics)
        ELSE by_section

\* The order of str values: digits by value and below every other token (the
\* only column compared is timestamp, whose other token is the same in all).
TokenRank(c) == IF c \in Digit THEN DigitVal(c) ELSE 10

RECURSIVE TextLess(_, _)
TextLess(a, b) ==
    IF b = << >> THEN FALSE
    ELSE IF a = << >> THEN TRUE
    ELSE IF a[1] = b[1] THEN TextLess(Tail(a), Tail(b))
    ELSE TokenRank(a[1]) < TokenRank(b[1])

Orders(n) ==
    {p \in [1..n -> 1..n] : \A i, j \in 1..n : i # j => p[i] # p[j]}

\* An order of rows sort_values(by='timestamp', ascending=False) may give.
\* The default kind is quicksort, which pandas documents as not stable: rows
\* with equal timestamps come in any order.  Missing timestamps come last
\* (na_position='last'), in their order in the frame.
DescendingOrder(df, p) ==
    \A i, j \in 1..Len(df) : i < j =>
        LET a == df[p[i]].timestamp
            b == df[p[j]].timestamp
        IN  /\ a.t = "nan" => b.t = "nan" /\ p[i] < p[j]
            /\ a.t # "nan" /\ b.t # "nan" => ~TextLess(a.v, b.v)

\* The rows of df in the order p, from the i-th on.
RECURSIVE Reorder(_, _, _)
Reorder(df, p, i) ==
    IF i > Len(df) THEN << >> ELSE <<df[p[i]]>> \o Reorder(df, p, i + 1)

sort_values(df) ==
    {Reorder(df, p, 1) : p \in {q \in Orders(Len(df)) : DescendingOrder(df, q)}}

(***************************************************************************)
(* What the users of a specification type and choose: the usernames and    *)
(* passwords tried, the sections chosen, how far down the metric list a    *)
(* choice goes, whether value widgets are changed, and the notes.          *)
(***************************************************************************)
StoreInputs ==
    [usernames |-> {"admin"}, passwords |-> {"admin"},
     sections |-> {"Executive Summary", "Recruitment"}, picks |-> 2,
     enter |-> FALSE, notes |-> { << >>, <<"0", "7">> }]

FormInputs ==
    [usernames |-> {"admin"}, passwords |-> {"admin"},
     sections |-> Range(dashboard_sections), picks |-> 6,
     enter |-> FALSE, notes |-> { << >> }]

AuthInputs ==
    [usernames |-> {"admin", "cher", "guest"}, passwords |-> {"admin", "walk"},
     sections |-> {"Executive Summary", "Member Care"}, picks |-> 1,
     enter |-> TRUE, notes |-> { << >> }]

(***************************************************************************)
(* State.                                                                  *)
(***************************************************************************)
VARIABLES
    file,           \* data/submissions.csv
    authenticated,  \* st.session_state.authenticated
    user_info,      \* st.session_state.user_info
    page,           \* the sidebar radio
    form,           \* the data-entry form as the last run showed it
    banner,         \* what the last run told the user
    view,           \* what the View Submissions page last rendered
    now,            \* the clock, in seconds
    issued,         \* how many uuid4 values have been drawn
    login_as,       \* history: the credentials of the last successful login
    appended,       \* history: every submission_data a save has written
    appended_by,    \* history: login_as at each of them
    unauth_io,      \* history: the log was read or written while logged out
    last_save,      \* history: the last save_submission call
    faults,         \* how many writes have failed
    sessions,       \* two concurrent sessions inside save_submission
    fmt             \* the last format_value call

vars ==
    << file, authenticated, user_info, page, form, banner, view, now, issued,
       login_as, appended, appended_by, unauth_io, last_save, faults,
       sessions, fmt >>

NoView ==
    [status |-> "none", input |-> << >>, filter_section |-> AllSections,
     filter_metrics |-> AllMetrics, filtered |-> << >>, sorted |-> << >>]

NoSave == [status |-> "none", before |-> NoFile, id |-> << >>]

NoLogin == [username |-> "", password |-> ""]

NoSession ==
    [pc |-> "off", user |-> NoUser, form |-> FormDefault, df |-> << >>,
     id |-> << >>]

NoFormat == [called |-> FALSE, value |-> << >>, metric_name |-> "", out |-> << >>]

InitExcept ==
    /\ file = NoFile
    /\ authenticated = FALSE
    /\ user_info = NoUser
    /\ page = "Data Entry"
    /\ form = FormDefault
    /\ banner = "none"
    /\ view = NoView
    /\ now = 0
    /\ issued = 0
    /\ login_as = NoLogin
    /\ appended = << >>
    /\ appended_by = << >>
    /\ unauth_io = FALSE
    /\ last_save = NoSave
    /\ faults = 0
    /\ fmt = NoFormat

Init == InitExcept /\ sessions = [s \in {1, 2} |-> NoSession]

(***************************************************************************)
(* Login and logout (lines 205-239).                                       *)
(***************************************************************************)
Login(P) ==
    /\ ~authenticated
    /\ \E username \in P.usernames, password \in P.passwords :
         LET r == check_login(username, password, auth_config)
         IN  IF r.authenticated
             THEN /\ authenticated' = TRUE
                  /\ user_info' = r.user_info
                  /\ login_as' = [username |-> username, password |-> password]
                  /\ banner' = "none"
             ELSE /\ banner' = "Invalid username or password"
                  /\ UNCHANGED <<authenticated, user_info, login_as>>
    /\ UNCHANGED << file, page, form, view, now, issued, appended, appended_by,
                    unauth_io, last_save, faults, sessions, fmt >>

Logout ==
    /\ authenticated
    /\ authenticated' = FALSE
    /\ user_info' = NoUser
    /\ page' = "Data Entry"
    /\ form' = FormDefault
    /\ banner' = "none"
    /\ view' = NoView
    /\ UNCHANGED << file, now, issued, login_as, appended, appended_by,
                    unauth_io, last_save, faults, sessions, fmt >>

(***************************************************************************)
(* The View Submissions page (lines 338-394).                              *)
(***************************************************************************)
\* One run of the page with the two filters as chosen.
Render(filter_section, filter_metrics) ==
    LET loaded == load_submissions(file)
        df     == loaded.df
    IN  /\ unauth_io' = (unauth_io \/ ~authenticated)
        /\ IF ~loaded.ok
           THEN view' = [NoView EXCEPT !.status = "exception"]
           ELSE IF Len(df) > 0
           THEN LET fs == IF filter_section \in FilterOptions(df, "dashboard_section", AllSections)
                          THEN filter_section ELSE AllSections
                    fm == IF filter_metrics \in FilterOptions(df, "metric_name", AllMetrics)
                          THEN filter_metrics ELSE AllMetrics
                    filtered_df == apply_filters(df, fs, fm)
                IN  \E sorted \in sort_values(filtered_df) :
                       view' = [status |-> "table", input |-> df,
                                filter_section |-> fs, filter_metrics |-> fm,
                                filtered |-> filtered_df, sorted |-> sorted]
           ELSE view' = [NoView EXCEPT !.status = "No submissions yet"]

Navigate ==
    /\ authenticated
    /\ \/ /\ page = "Data Entry"
          /\ page' = "View Submissions"
          /\ Render(AllSections, AllMetrics)
          /\ form' = FormDefault
       \/ /\ page = "View Submissions"
          /\ page' = "Data Entry"
          /\ view' = NoView
          /\ UNCHANGED <<form, unauth_io>>
    /\ banner' = "none"
    /\ UNCHANGED << file, authenticated, user_info, now, issued, login_as,
                    appended, appended_by, last_save, faults, sessions, fmt >>

SetSectionFilter ==
    /\ authenticated
    /\ page = "View Submissions"
    /\ view.status = "table"
    /\ \E fs \in FilterOptions(view.input, "dashboard_section", AllSections) :
         Render(fs, view.filter_metrics)
    /\ UNCHANGED << file, authenticated, user_info, page, form, banner, now,
                    issued, login_as, appended, appended_by, last_save, faults,
                    sessions, fmt >>

SetMetricFilter ==
    /\ authenticated
    /\ page = "View Submissions"
    /\ view.status = "table"
    /\ \E fm \in FilterOptions(view.input, "metric_name", AllMetrics) :
         Render(view.filter_section, fm)
    /\ UNCHANGED << file, authenticated, user_info, page, form, banner, now,
                    issued, login_as, appended, appended_by, last_save, faults,
                    sessions, fmt >>

(***************************************************************************)
(* The Data Entry page (lines 244-336).                                    *)
(***************************************************************************)
\* The seconds between one press of Submit Data and the one before it; the
\* clock starts at the first.
Elapsed(presses) == IF presses = 0 THEN {0} ELSE {0, 1}

\* The user's changes to the form as shown, and the record the run builds.
FormEntries(P, shown, user, id, clock) ==
    LET shown_options == get_metrics_for_section(shown.section)
        shown_widget  == WidgetFor(shown.metric)
    IN  {submission_data(shown, sec, shown_options[m], entered, notes, user, id, clock) :
            sec \in P.sections,
            m \in {i \in 1..Len(shown_options) : i <= P.picks},
            entered \in IF P.enter THEN WidgetInputs(shown_widget)
                        ELSE {WidgetDefault(shown_widget)},
            notes \in P.notes}

FormShown(data) ==
    [section |-> data.dashboard_section[1], metric |-> data.metric_name[1]]

\* Submit Data.  save_submission returns True or raises: a log that cannot
\* be read raises before anything is written.
Submit(P) ==
    /\ authenticated
    /\ page = "Data Entry"
    /\ Len(appended) < MaxRecords
    /\ issued < MaxRecords + MaxFaults
    /\ \E elapsed \in Elapsed(issued) :
       \E data \in FormEntries(P, form, user_info, issued + 1, now + elapsed) :
         /\ now' = now + elapsed
         /\ form' = FormShown(data)
         /\ IF load_submissions(file).ok
            THEN /\ file' = save_submission(file, data)
                 /\ banner' = "Data Submitted Successfully!"
                 /\ appended' = Append(appended, data)
                 /\ appended_by' = Append(appended_by, login_as.username)
                 /\ last_save' = [status |-> "saved", before |-> file,
                                  id |-> data.submission_id]
            ELSE /\ banner' = "exception"
                 /\ last_save' = [status |-> "failed", before |-> file,
                                  id |-> data.submission_id]
                 /\ UNCHANGED <<file, appended, appended_by>>
    /\ issued' = issued + 1
    /\ unauth_io' = (unauth_io \/ ~authenticated)
    /\ UNCHANGED << authenticated, user_info, page, view, login_as, faults,
                    sessions, fmt >>

\* Submit Data when to_csv raises (permission denied, disk full): the file
\* is as it was if it could not be opened, and cut short if the write
\* stopped part-way; the exception reaches the page.
SubmitWriteFails(P) ==
    /\ authenticated
    /\ page = "Data Entry"
    /\ faults < MaxFaults
    /\ issued < MaxRecords + MaxFaults
    /\ load_submissions(file).ok
    /\ \E data \in FormEntries(P, form, user_info, issued + 1, now) :
         /\ form' = FormShown(data)
         /\ file' \in {file} \cup Truncations(save_submission(file, data))
         /\ last_save' = [status |-> "failed", before |-> file,
                          id |-> data.submission_id]
    /\ banner' = "exception"
    /\ faults' = faults + 1
    /\ issued' = issued + 1
    /\ unauth_io' = (unauth_io \/ ~authenticated)
    /\ UNCHANGED << authenticated, user_info, page, view, now, login_as,
                    appended, appended_by, sessions, fmt >>

\* One session over the submission log.
Next ==
    \/ Login(StoreInputs)
    \/ Logout
    \/ Navigate
    \/ SetSectionFilter
    \/ SetMetricFilter
    \/ Submit(StoreInputs)

Spec == Init /\ [][Next]_vars

\* The form with the whole catalog to choose from.
NextForm ==
    \/ Login(FormInputs)
    \/ Logout
    \/ Navigate
    \/ Submit(FormInputs)

SpecForm == Init /\ [][NextForm]_vars

\* Several users, right and wrong passwords.
NextAuth ==
    \/ Login(AuthInputs)
    \/ Logout
    \/ Navigate
    \/ Submit(AuthInputs)

SpecAuth == Init /\ [][NextAuth]_vars

\* The session with writes that fail.
NextFaults ==
    \/ Login(StoreInputs)
    \/ Logout
    \/ Navigate
    \/ Submit(StoreInputs)
    \/ SubmitWriteFails(StoreInputs)

SpecFaults == Init /\ [][NextFaults]_vars

(***************************************************************************)
(* Two sessions of the server in save_submission at once.  Streamlit runs  *)
(* each session's script in a thread of its own, and nothing in the code   *)
(* holds a lock from load_submissions (line 105) to to_csv (line 108).     *)
(***************************************************************************)
InitConcurrent ==
    /\ InitExcept
    /\ sessions =
         [s \in {1, 2} |->
            [NoSession EXCEPT !.pc = "form",
                              !.user = IF s = 1 THEN auth_config.users.admin
                                       ELSE auth_config.users.cher]]

\* Session s submits: its run builds the record and save_submission reads the log.
SessionLoads(s) ==
    /\ sessions[s].pc = "form"
    /\ issued < MaxRecords
    /\ \E data \in FormEntries(StoreInputs, sessions[s].form, sessions[s].user,
                               issued + 1, now) :
         sessions' = [sessions EXCEPT ![s] =
                        [pc |-> "loaded", user |-> sessions[s].user,
                         form |-> FormShown(data),
                         df |-> load_submissions(file).df \o NewFrame(data),
                         id |-> data.submission_id]]
    /\ issued' = issued + 1
    /\ UNCHANGED << file, authenticated, user_info, page, form, banner, view,
                    now, login_as, appended, appended_by, unauth_io, last_save,
                    faults, fmt >>

\* Session s's save_submission writes the frame it built and returns.
SessionWrites(s) ==
    /\ sessions[s].pc = "loaded"
    /\ file' = to_csv(sessions[s].df)
    /\ appended' = Append(appended, [name \in Range(Columns) |->
                                       sessions[s].df[Len(sessions[s].df)][name].v])
    /\ sessions' = [sessions EXCEPT ![s].pc = "form", ![s].df = << >>]
    /\ UNCHANGED << authenticated, user_info, page, form, banner, view, now,
                    issued, login_as, appended_by, unauth_io, last_save,
                    faults, fmt >>

NextConcurrent == \E s \in {1, 2} : SessionLoads(s) \/ SessionWrites(s)

SpecConcurrent == InitConcurrent /\ [][NextConcurrent]_vars

(***************************************************************************)
(* format_value on its own.                                                *)
(***************************************************************************)
ValueAlphabet == {"0", "1", "7", ".", "%", "a"}

Values == UNION {[1..n -> ValueAlphabet] : n \in 0..MaxLen}

MetricNames ==
    UNION {Range(get_metrics_for_section(dashboard_sections[i])) :
              i \in 1..Len(dashboard_sections)} \cup {"Volunteer Hours"}

Format ==
    /\ ~fmt.called
    /\ \E value \in Values, metric_name \in MetricNames :
         fmt' = [called |-> TRUE, value |-> value, metric_name |-> metric_name,
                 out |-> format_value(value, metric_name)]
    /\ UNCHANGED << file, authenticated, user_info, page, form, banner, view,
                    now, issued, login_as, appended, appended_by, unauth_io,
                    last_save, faults, sessions >>

NextFormat == Format

SpecFormat == Init /\ [][NextFormat]_vars

(***************************************************************************)
(* The claims.                                                             *)
(***************************************************************************)
StoredIds(f) ==
    LET df == load_submissions(f).df IN {df[i].submission_id.v : i \in 1..Len(df)}

\* C1: after a successful save_submission, load_submissions returns a record
\* with the new submission_id, which is not empty and is the submission_id
\* of no record the log held before the call.
C1_SavedRecordVisible ==
    last_save.status = "saved" =>
        /\ last_save.id # << >>
        /\ last_save.id \in StoredIds(file)
        /\ last_save.id \notin StoredIds(last_save.before)

\* A save onto a log that already held a record.
C1_Witness ==
    /\ last_save.status = "saved"
    /\ StoredIds(last_save.before) # {}
    /\ last_save.id \in StoredIds(file)

\* C2: load_submissions returns every record ever appended, in the order
\* appended, each field reading as it was appended.
C2_AppendOnly ==
    LET df == load_submissions(file).df
    IN  /\ Len(df) = Len(appended)
        /\ \A i \in 1..Len(df) : \A name \in Range(Columns) :
              df[i][name].v = appended[i][name]

\* C3: once no save_submission call is in progress, the log holds the record
\* of every call that has returned.
C3_NoLostAppend ==
    (\A s \in {1, 2} : sessions[s].pc = "form") =>
        \A i \in 1..Len(appended) : appended[i].submission_id \in StoredIds(file)

\* C4: after a save_submission whose write failed, the log holds the records
\* it held before the call, no more and no fewer, and the page does not show
\* the success message.
C4_FailedWriteLeavesLog ==
    last_save.status = "failed" =>
        /\ StoredIds(file) = StoredIds(last_save.before)
        /\ banner # "Data Submitted Successfully!"

WholeRows(f) == LET Whole(r) == Len(r) = Len(Columns) IN SelectSeq(f.rows, Whole)

\* C5: load_submissions on a log with whole rows returns exactly the records
\* of the whole rows, skipping the others; when it fails, the page shows an
\* error and not the empty-table message.
C5_PartialLogRecovered ==
    LET loaded == load_submissions(file)
    IN  /\ WholeRows(file) # << >> =>
              /\ loaded.ok
              /\ Len(loaded.df) = Len(WholeRows(file))
              /\ \A i \in 1..Len(loaded.df) :
                    loaded.df[i].submission_id.v = WholeRows(file)[i][1]
        /\ ~loaded.ok /\ page = "View Submissions" => view.status = "exception"

\* C6: with no filter set the filtered frame is the loaded one; with both set
\* it is the loaded rows, in order, whose section and metric are the ones
\* chosen; and the log still reads as the frame that was loaded.
C6_FilterExact ==
    view.status = "table" =>
        LET Both(r) == /\ r.dashboard_section = view.filter_section
                       /\ r.metric_name = view.filter_metrics
        IN  /\ view.filter_section = AllSections /\ view.filter_metrics = AllMetrics
                  => view.filtered = view.input
            /\ view.filter_section # AllSections /\ view.filter_metrics # AllMetrics
                  => view.filtered = SelectSeq(view.input, Both)
            /\ load_submissions(file).df = view.input

\* Both filters set, keeping some rows and dropping others.
C6_Witness ==
    /\ view.status = "table"
    /\ view.filter_section # AllSections
    /\ view.filter_metrics # AllMetrics
    /\ Len(view.filtered) > 0
    /\ Len(view.filtered) < Len(view.input)

Position(df, r) == CHOOSE i \in 1..Len(df) : df[i] = r

\* C7: the sorted frame is the filtered rows in non-increasing timestamp
\* order, rows of equal timestamp in the order they had before the sort.
C7_StableNewestFirst ==
    view.status = "table" =>
        /\ Len(view.sorted) = Len(view.filtered)
        /\ Range(view.sorted) = Range(view.filtered)
        /\ \A i, j \in 1..Len(view.sorted) :
              i < j => ~TextLess(view.sorted[i].timestamp.v, view.sorted[j].timestamp.v)
        /\ \A i, j \in 1..Len(view.filtered) :
              i < j /\ view.filtered[i].timestamp = view.filtered[j].timestamp
                 => Position(view.sorted, view.filtered[i])
                      < Position(view.sorted, view.filtered[j])

\* C8: format_value returns the value unchanged for the free-text metric.
C8_FreeTextUnchanged ==
    fmt.called /\ fmt.metric_name \in FreeTextMetrics => fmt.out = fmt.value

\* C9: every record in the log has one of the nine sections and a metric of
\* the list get_metrics_for_section gives for that section.
C9_SectionMetricValid ==
    LET df == load_submissions(file).df
    IN  \A i \in 1..Len(df) :
           /\ df[i].dashboard_section.t = "str"
           /\ df[i].metric_name.t = "str"
           /\ \E sec \in Range(dashboard_sections) :
                 /\ df[i].dashboard_section.v = <<sec>>
                 /\ \E m \in Range(get_metrics_for_section(sec)) :
                       df[i].metric_name.v = <<m>>

\* A record submitted right after the user changed the section of a form
\* that showed another section's metrics.
C9_Witness ==
    LET df == load_submissions(file).df
    IN  /\ Len(df) = 2
        /\ df[1].dashboard_section # df[2].dashboard_section
        /\ df[1].dashboard_section.v # <<dashboard_sections[1]>>

\* C10: authenticated holds exactly when user_info is set, and then through a
\* login whose username is configured with the password given; the log is
\* never read or written while logged out; every record carries the email of
\* the user logged in when it was stamped.
C10_AuthGate ==
    /\ authenticated <=> user_info # NoUser
    /\ authenticated =>
          /\ login_as.username \in DOMAIN auth_config.users
          /\ login_as.password = auth_config.users[login_as.username].password
          /\ user_info = auth_config.users[login_as.username]
    /\ ~unauth_io
    /\ Len(appended_by) = Len(appended)
    /\ \A i \in 1..Len(appended) :
          appended[i].email = auth_config.users[appended_by[i]].email

\* Two users have each logged in and submitted, with a logout between.
C10_Witness ==
    /\ Len(appended) = 2
    /\ appended_by[1] # appended_by[2]
    /\ ~authenticated
    /\ banner = "Invalid username or password"

====
